---- MODULE Spec2Model ----
(***************************************************************************)
(* A model of type-sweeper (src/pixi.ts): the hexagonal grid, its caption  *)
(* computation, and the cell handlers of a loaded level.                   *)
(*                                                                         *)
(* Encoding of the TypeScript values:                                      *)
(*   GridPoint {x, y}        <<x, y>>                                      *)
(*   undefined               the record  undefined                         *)
(*   null hint type          the string "null"                             *)
(*   Cell / PassiveHint      records; the type guards isCell and           *)
(*                           isPassiveHint test, as the source does, for   *)
(*                           the presence of a distinguishing field        *)
(*   GridMap                 a function whose DOMAIN is the set of keys    *)
(*   number (not an integer) an exact fraction <<numerator, denominator>>  *)
(*                           in lowest terms; rounding is not modelled     *)
(***************************************************************************)
EXTENDS Integers, Sequences, FiniteSets, TLC

VARIABLES
    file,            \* game_data.content, the text handed to new Game(...)
    levels,          \* Game.levels, what parseLevelFile returned
    levelData,       \* the ParsedLevel handed to new Level(...)
    phase,           \* "parsed": not yet loaded; "loaded": after loadCurrentLevel
    content,         \* Grid.content of the current level
    remainingMines,  \* Game.remainingMines.value
    console,         \* the errors the last operation logged or threw
    request,         \* the last reveal request issued (observation only)
    point,           \* a GridPoint under inspection
    yielded,         \* what the last generator call on point yielded
    view,            \* app.view: width, height, and the full-screen bookkeeping
    layers,          \* the ContainerLayers: zoom_level, userZoom, contentZoom,
                     \* _dragAnchor, shift, and the transformation last applied
    gestures,        \* zoom and drag events since the last fit (bounds the model)
    operands,        \* ZoomTrafos and a Point under inspection
    outcome,         \* what the last ZoomTrafo method called on them returned
    walk             \* where Grid.makeCaptions stands: its loops' variables

fileVars == <<file, levels>>
pointVars == <<point, yielded>>
trafoVars == <<operands, outcome>>
viewVars == <<view, layers, gestures>>
vars == <<fileVars, trafoVars, walk, levelData, phase, content, remainingMines, console, request,
          pointVars, viewVars>>

----------------------------------------------------------------------------
(* Bounds of the model.                                                    *)

\* Coordinates inspected by the GridPoint specification: -MaxCoord..MaxCoord.
MaxCoord == 5
\* Number of cells placed on the line of a line hint in the caption inputs.
MaxLine == 3

----------------------------------------------------------------------------
(* JavaScript values.                                                      *)

undefined == [undefined |-> TRUE]
null == [null |-> TRUE]

HintTypes == {"null", "simple", "typed"}
Directions == {"left", "down", "right"}

----------------------------------------------------------------------------
(* GridPoint.                                                              *)

plus(p, d) == <<p[1] + d[1], p[2] + d[2]>>

nbhdOffsets ==
    << <<0, -2>>, <<1, -1>>, <<1, 1>>, <<0, 2>>, <<-1, 1>>, <<-1, -1>> >>

\* Mutant: the last offset repeats the one before it.
nbhdRepeated(p) ==
    [k \in 1..Len(nbhdOffsets) |->
        IF k = Len(nbhdOffsets) THEN plus(p, nbhdOffsets[k - 1])
        ELSE plus(p, nbhdOffsets[k])]

nbhd(p) == [k \in 1..Len(nbhdOffsets) |-> plus(p, nbhdOffsets[k])]

bigNbhdOffsets ==
    << <<-1, -1>>, <<0, -2>>, <<1, -1>>, <<1, 1>>, <<0, 2>>, <<-1, 1>>, <<0, 4>>,
       <<1, 3>>, <<2, 2>>, <<2, 0>>, <<2, -2>>, <<1, -3>>, <<0, -4>>, <<-1, -3>>,
       <<-2, -2>>, <<-2, 0>>, <<-2, 2>>, <<-1, 3>> >>

\* Mutant: the 6 direct neighbours are left out of the list.
bigNbhdRingOnly(p) == [k \in 1..12 |-> plus(p, bigNbhdOffsets[k + 6])]

\* Mutant: the last offset repeats the first.
bigNbhdRepeated(p) ==
    [k \in 1..Len(bigNbhdOffsets) |->
        plus(p, bigNbhdOffsets[IF k = Len(bigNbhdOffsets) THEN 1 ELSE k])]

bigNbhd(p) == [k \in 1..Len(bigNbhdOffsets) |-> plus(p, bigNbhdOffsets[k])]

----------------------------------------------------------------------------
(* Parser bindings: the values the level parser hands to Grid.             *)

ParsedNull == null
ParsedCells == [mine : BOOLEAN, revealed : BOOLEAN, hint : HintTypes]
ParsedPassiveHints == [direction : Directions, hint : {"simple", "typed"}]

isParsedCell(candidate) == candidate # ParsedNull /\ "mine" \in DOMAIN candidate

isParsedPassiveHint(candidate) ==
    candidate # ParsedNull /\ "direction" \in DOMAIN candidate

----------------------------------------------------------------------------
(* Cell and PassiveHint.                                                   *)

\* new Cell(revealed, mine, hintType): the container does not exist yet.
Cell(revealed, mine, hintType) ==
    [revealed |-> revealed, mine |-> mine, hintType |-> hintType,
     caption |-> "undefined", hovered |-> FALSE, hintEnabled |-> TRUE,
     regionOverlayVisible |-> FALSE,
     interactive |-> FALSE, buttonMode |-> FALSE, textVisible |-> FALSE]

\* new PassiveHint(direction, hintType)
PassiveHint(direction, hintType) ==
    [direction |-> direction, hintType |-> hintType, caption |-> "X",
     hintEnabled |-> TRUE, lineOverlayVisible |-> FALSE, interactive |-> FALSE]

isPassiveHint(cell) == cell # undefined /\ "lineOverlayVisible" \in DOMAIN cell

isCell(cell) == cell # undefined /\ "regionOverlayVisible" \in DOMAIN cell

\* Mutant: "down" does not move.
deltaDownStays(cell) ==
    IF cell.direction = "left" THEN <<-1, 1>>
    ELSE IF cell.direction = "down" THEN <<0, 0>>
    ELSE <<1, 1>>

\* Mutant: "left" and "right" are exchanged.
deltaMirrored(cell) ==
    IF cell.direction = "left" THEN <<1, 1>>
    ELSE IF cell.direction = "down" THEN <<0, 2>>
    ELSE <<-1, 1>>

delta(cell) ==
    IF cell.direction = "left" THEN <<-1, 1>>
    ELSE IF cell.direction = "down" THEN <<0, 2>>
    ELSE <<1, 1>>

captionVisible(cell) ==
    IF cell.mine THEN cell.revealed /\ cell.hintType # "null"
    ELSE cell.revealed

interactionLevel(cell) ==
    IF ~cell.revealed THEN "buttonMode"
    ELSE IF captionVisible(cell) THEN "shadowHint"
    ELSE "noInteraction"

updateGraphicProperties(cell) ==
    LET shown == [cell EXCEPT !.textVisible = captionVisible(cell)]
        level == interactionLevel(cell)
    IN  IF level = "buttonMode"
        THEN [shown EXCEPT !.interactive = TRUE, !.buttonMode = TRUE]
        ELSE IF level = "shadowHint"
        THEN [shown EXCEPT !.interactive = TRUE, !.buttonMode = FALSE]
        ELSE [shown EXCEPT !.interactive = FALSE]

\* Cell.makeContainer / PassiveHint.makeContainer, as far as the model's fields go.
makeContainer(cell) ==
    IF isPassiveHint(cell) THEN [cell EXCEPT !.interactive = TRUE]
    ELSE updateGraphicProperties(cell)

----------------------------------------------------------------------------
(* GridMap and Grid.                                                       *)

get(map, key) == IF key \in DOMAIN map THEN map[key] ELSE undefined

\* The keys in insertion order: Grid's constructor inserts row by row.
\* row.forEach: the occupied slots of row i from column j on.
RECURSIVE keysOfRow(_, _, _)
keysOfRow(grid, i, j) ==
    IF j > Len(grid[i]) THEN <<>>
    ELSE IF isParsedCell(grid[i][j]) \/ isParsedPassiveHint(grid[i][j])
         THEN <<(<<j - 1, i - 1>>)>> \o keysOfRow(grid, i, j + 1)
         ELSE keysOfRow(grid, i, j + 1)

\* levelData.grid.forEach: row i from column j on, then the rows after it.
RECURSIVE keysFrom(_, _, _)
keysFrom(grid, i, j) ==
    IF i > Len(grid) THEN <<>>
    ELSE keysOfRow(grid, i, j) \o keysFrom(grid, i + 1, 1)

keys(grid) == keysFrom(grid, 1, 1)

Range(s) == {s[k] : k \in DOMAIN s}

\* Grid.constructor before makeCaptions: row i, column j goes to GridPoint(j, i).
\* Mutant: the constructor of Cell is handed mine and revealed the wrong way
\* round.
placedSwapped(grid) ==
    [p \in Range(keys(grid)) |->
        LET cell == grid[p[2] + 1][p[1] + 1]
        IN  IF isParsedCell(cell) THEN Cell(cell.mine, cell.revealed, cell.hint)
            ELSE PassiveHint(cell.direction, cell.hint)]

placed(grid) ==
    [p \in Range(keys(grid)) |->
        LET cell == grid[p[2] + 1][p[1] + 1]
        IN  IF isParsedCell(cell) THEN Cell(cell.revealed, cell.mine, cell.hint)
            ELSE PassiveHint(cell.direction, cell.hint)]

\* Mutant: revealed mines are counted as well.
hiddenMineCountAnyMine(map) ==
    Cardinality({p \in DOMAIN map : ~isPassiveHint(map[p]) /\ map[p].mine})

hiddenMineCount(map) ==
    Cardinality({p \in DOMAIN map :
                    ~isPassiveHint(map[p]) /\ ~map[p].revealed /\ map[p].mine})

----------------------------------------------------------------------------
(* Grid.makeCaptions.                                                      *)

\* The walk of a line hint goes on while linePoint.y < yLimit.
yLimit == 300

\* Mutant: the isCell test is left out, so an empty slot ends the first group.
lineStepNoCellTest(state, lineCell) ==
    IF isCell(lineCell) /\ lineCell.mine
    THEN [count |-> state.count + 1,
          typeState |->
             IF state.typeState = "initial" THEN "firstGroup"
             ELSE IF state.typeState = "firstGroupOver" THEN "disjoint"
             ELSE state.typeState]
    ELSE [state EXCEPT !.typeState =
             IF state.typeState = "firstGroup" THEN "firstGroupOver"
             ELSE state.typeState]

\* Mutant: a mine is counted and the classifier is left as it is.
lineStepCountsOnly(state, lineCell) ==
    IF isCell(lineCell) /\ lineCell.mine
    THEN [state EXCEPT !.count = state.count + 1]
    ELSE state

\* One pass of the while loop's body: the counter and the classifier after
\* looking at lineCell.
lineStep(state, lineCell) ==
    IF isCell(lineCell)
    THEN IF lineCell.mine
         THEN [count |-> state.count + 1,
               typeState |->
                  IF state.typeState = "initial" THEN "firstGroup"
                  ELSE IF state.typeState = "firstGroupOver" THEN "disjoint"
                  ELSE state.typeState]
         ELSE [state EXCEPT !.typeState =
                  IF state.typeState = "firstGroup" THEN "firstGroupOver"
                  ELSE state.typeState]
    ELSE state

\* The passes of the while loop: pass k tests linePoint = p + (k-1)*step
\* against yLimit and then looks at p + k*step.  Every step raises y by at
\* least 1, so the passes are 1..n for some n <= yLimit - p.y.
linePasses(p, step) ==
    Cardinality({k \in 1..(yLimit - p[2]) : p[2] + (k - 1) * step[2] < yLimit})

\* The loop's passes lo..hi in order, starting from state.  (The range is
\* halved only to keep the evaluation shallow; the passes run in the loop's
\* order.)
RECURSIVE lineWalk(_, _, _, _, _, _)
lineWalk(map, p, step, lo, hi, state) ==
    IF lo > hi \/ state.count < 0   \* count is never negative: the test only
    THEN state                       \* has state evaluated before the descent
    ELSE IF lo = hi
    THEN lineStep(state, get(map, <<p[1] + lo * step[1], p[2] + lo * step[2]>>))
    ELSE LET mid == (lo + hi) \div 2
         IN  lineWalk(map, p, step, mid + 1, hi,
                      lineWalk(map, p, step, lo, mid, state))

\* The loop of a line hint, from "let linePoint = point" to its exit.
lineResult(map, p) ==
    lineWalk(map, p, delta(map[p]), 1, linePasses(p, delta(map[p])),
             [count |-> 0, typeState |-> "initial"])

\* The caption a line hint gets after its loop: the branches on hintType and
\* typeState.  (In the last one "!count!" is overwritten by "0" at once.)
lineCaption(cell, walked) ==
    LET count == walked.count
        typeState == walked.typeState
    IN  IF cell.hintType = "simple" THEN ToString(count)
        ELSE IF cell.hintType = "typed"
        THEN IF typeState = "disjoint" THEN "-" \o ToString(count) \o "-"
             ELSE IF typeState = "firstGroup" \/ typeState = "firstGroupOver"
             THEN "{" \o ToString(count) \o "}"
             ELSE "0"
        ELSE cell.caption

passiveHintCaption(map, p) == lineCaption(map[p], lineResult(map, p))

\* Mutant: the mine flag is not looked at.
nbhdMineAnyCell(nbhdCell) == nbhdCell # undefined /\ ~isPassiveHint(nbhdCell)

\* "nbhdCell != undefined && !isPassiveHint(nbhdCell) && nbhdCell.mine"
\* Mutant: a revealed mine is no longer counted.
nbhdMineHiddenOnly(nbhdCell) ==
    isCell(nbhdCell) /\ nbhdCell.mine /\ ~nbhdCell.revealed

nbhdMine(nbhdCell) ==
    nbhdCell # undefined /\ ~isPassiveHint(nbhdCell) /\ nbhdCell.mine

\* "isCell(nbhdCell) && nbhdCell.mine"
bigNbhdMine(nbhdCell) == isCell(nbhdCell) /\ nbhdCell.mine

\* The counting loop of a simple hint on a non-mine cell, after k neighbours.
RECURSIVE nbhdCount(_, _, _)
nbhdCount(map, neighbors, k) ==
    IF k = 0 THEN 0
    ELSE nbhdCount(map, neighbors, k - 1)
         + (IF nbhdMine(get(map, neighbors[k])) THEN 1 ELSE 0)

\* The counting loop of a simple hint on a mine, after k neighbours.
RECURSIVE bigNbhdCount(_, _, _)
bigNbhdCount(map, neighbors, k) ==
    IF k = 0 THEN 0
    ELSE bigNbhdCount(map, neighbors, k - 1)
         + (IF bigNbhdMine(get(map, neighbors[k])) THEN 1 ELSE 0)

\* The typed scan after the first k neighbours; lastWasMine is <<>> for null
\* and <<b>> for the boolean b.
RECURSIVE typedScan(_, _, _)
typedScan(map, neighbors, k) ==
    IF k = 0
    THEN [count |-> 0, adjacentPairCounter |-> 0, lastWasMine |-> <<>>]
    ELSE LET before == typedScan(map, neighbors, k - 1)
             thisIsMine == nbhdMine(get(map, neighbors[k]))
         IN  [count |-> before.count + (IF thisIsMine THEN 1 ELSE 0),
              adjacentPairCounter |->
                  before.adjacentPairCounter
                  + (IF <<thisIsMine>> = before.lastWasMine THEN 1 ELSE 0),
              lastWasMine |-> <<thisIsMine>>]

\* Mutant: the threshold of the typed caption is 4 instead of 3.
typedCaptionThreshold4(scan) ==
    IF scan.adjacentPairCounter >= 4
    THEN "{" \o ToString(scan.count) \o "}"
    ELSE "-" \o ToString(scan.count) \o "-"

\* The caption the typed scan ends with.
typedCaption(scan) ==
    IF scan.adjacentPairCounter >= 3
    THEN "{" \o ToString(scan.count) \o "}"
    ELSE "-" \o ToString(scan.count) \o "-"

cellCaption(map, p) ==
    LET cell == map[p]
    IN  IF cell.mine
        THEN IF cell.hintType = "simple"
             THEN ToString(bigNbhdCount(map, bigNbhd(p), Len(bigNbhd(p))))
             ELSE "Error!"
        ELSE IF cell.hintType = "null" THEN "?"
        ELSE IF cell.hintType = "simple"
        THEN ToString(nbhdCount(map, nbhd(p), Len(nbhd(p))))
        ELSE IF cell.hintType = "typed"
        THEN typedCaption(typedScan(map, nbhd(p), Len(nbhd(p))))
        ELSE cell.caption

captionOf(map, p) ==
    IF isPassiveHint(map[p]) THEN passiveHintCaption(map, p) ELSE cellCaption(map, p)

\* makeCaptions visits the entries in the map's iteration order and stores
\* each caption in place before going on to the next entry.
RECURSIVE makeCaptionsIn(_, _, _)
makeCaptionsIn(map, order, k) ==
    IF k = 0 THEN map
    ELSE LET before == makeCaptionsIn(map, order, k - 1)
         IN  [before EXCEPT ![order[k]].caption = captionOf(before, order[k])]

makeCaptions(map, order) == makeCaptionsIn(map, order, Len(order))

\* new Grid(levelData)
Grid(parsedLevel) == makeCaptions(placed(parsedLevel.grid), keys(parsedLevel.grid))

\* The loop of loadCurrentLevel: every entity gets its container.
withContainers(map) == [p \in DOMAIN map |-> makeContainer(map[p])]

----------------------------------------------------------------------------
(* Numbers with fractions.                                                 *)

RECURSIVE GCD(_, _)
GCD(a, b) == IF b = 0 THEN a ELSE GCD(b, a % b)

Abs(n) == IF n < 0 THEN -n ELSE n

\* The fraction n/d in lowest terms with a positive denominator.
Frac(n, d) ==
    LET g == GCD(Abs(n), Abs(d))
    IN  IF d < 0 THEN <<(-n) \div g, (-d) \div g>> ELSE <<n \div g, d \div g>>

Num(n) == <<n, 1>>

Add(a, b) ==
    LET g == GCD(a[2], b[2])
    IN  Frac(a[1] * (b[2] \div g) + b[1] * (a[2] \div g), (a[2] \div g) * b[2])
Neg(a) == <<-a[1], a[2]>>
Sub(a, b) == Add(a, Neg(b))
Mul(a, b) ==
    LET g == GCD(Abs(a[1]), b[2])
        h == GCD(Abs(b[1]), a[2])
    IN  Frac((a[1] \div g) * (b[1] \div h), (a[2] \div h) * (b[2] \div g))
Div(a, b) == Mul(a, Frac(b[2], b[1]))
Less(a, b) == Sub(a, b)[1] < 0
Min(a, b) == IF Less(b, a) THEN b ELSE a

\* base ** k for an integer k.
RECURSIVE Pow(_, _)
Pow(base, k) ==
    IF k = 0 THEN Num(1)
    ELSE IF k > 0 THEN Mul(base, Pow(base, k - 1))
    ELSE Div(Pow(base, k + 1), base)

\* null and undefined in arithmetic: null is 0.
ToNumber(v) == IF v = null THEN Num(0) ELSE v

\* Math.sqrt(3), to three decimals.
sqrt3 == Frac(1732, 1000)

----------------------------------------------------------------------------
(* BoundingInterval and Grid.fitIntoFrame.                                 *)

Point(x, y) == [x |-> x, y |-> y]

\* GridPoint.pixel
pixel(p) == Point(Frac(15 * p[1], 10), Frac(866 * p[2], 1000))

boundingCenterOffset(cell) ==
    IF cell.direction = "left" THEN Point(Frac(-5, 10), Frac(5, 10))
    ELSE IF cell.direction = "down" THEN Point(Num(0), Num(1))
    ELSE Point(Frac(5, 10), Frac(5, 10))

\* new BoundingInterval()
BoundingInterval == [min |-> null, max |-> null]

\* Mutant: the maximum is only set by the first value.
addFirstMaxOnly(interval, value) ==
    [min |-> IF interval.min = null \/ Less(value, interval.min)
             THEN value ELSE interval.min,
     max |-> IF interval.max = null THEN value ELSE interval.max]

\* BoundingInterval.add
add(interval, value) ==
    [min |-> IF interval.min = null \/ Less(value, interval.min)
             THEN value ELSE interval.min,
     max |-> IF interval.max = null \/ Less(interval.max, value)
             THEN value ELSE interval.max]

\* BoundingInterval.length and .center
length(interval) == Sub(ToNumber(interval.max), ToNumber(interval.min))
center(interval) ==
    Div(Add(ToNumber(interval.min), ToNumber(interval.max)), Num(2))

\* The point makeBoundingPoints adds for the entry at p.
boundingPoint(map, p) ==
    IF isPassiveHint(map[p])
    THEN Point(Add(pixel(p).x, boundingCenterOffset(map[p]).x),
               Add(pixel(p).y, boundingCenterOffset(map[p]).y))
    ELSE pixel(p)

\* Grid.makeBoundingPoints after the first k entries of the iteration order.
RECURSIVE makeBoundingPoints(_, _, _)
makeBoundingPoints(map, order, k) ==
    IF k = 0 THEN [x |-> BoundingInterval, y |-> BoundingInterval]
    ELSE LET before == makeBoundingPoints(map, order, k - 1)
             at == boundingPoint(map, order[k])
         IN  [x |-> add(before.x, at.x), y |-> add(before.y, at.y)]

\* new ZoomTrafo(scale, offset); the default offset is the origin.
ZoomTrafo(scale, offset) == [scale |-> scale, offset |-> offset]
Origin == Point(Num(0), Num(0))

\* Grid.fitIntoFrame
fitIntoFrame(map, order, width, height) ==
    LET bounds == makeBoundingPoints(map, order, Len(order))
        xPadding == Num(2)
        yPadding == sqrt3
        xScale == Div(Num(width), Add(length(bounds.x), xPadding))
        yScale == Div(Num(height), Add(length(bounds.y), yPadding))
        scale == Min(xScale, yScale)
        xOffset == Sub(Frac(width, 2), Mul(center(bounds.x), scale))
        yOffset == Sub(Frac(height, 2), Mul(center(bounds.y), scale))
    IN  ZoomTrafo(scale, Point(xOffset, yOffset))

----------------------------------------------------------------------------
(* ZoomTrafo and ContainerLayers.                                          *)

\* ZoomTrafo.apply
apply(trafo, p) ==
    Point(Add(Mul(trafo.scale, p.x), trafo.offset.x),
          Add(Mul(trafo.scale, p.y), trafo.offset.y))

\* Mutant: the fixed point is scaled by 1 + scale.
setFixPointPlus(trafo, p) ==
    [trafo EXCEPT !.offset = Point(Mul(Add(Num(1), trafo.scale), p.x),
                                    Mul(Add(Num(1), trafo.scale), p.y))]

\* The fixPoint setter: the transformation afterwards.
setFixPoint(trafo, p) ==
    [trafo EXCEPT !.offset = Point(Mul(Sub(Num(1), trafo.scale), p.x),
                                    Mul(Sub(Num(1), trafo.scale), p.y))]

\* Mutant: the offset of the first transformation is added unscaled.
afterUnscaled(this, first) ==
    ZoomTrafo(Mul(this.scale, first.scale),
              Point(Add(this.offset.x, first.offset.x),
                    Add(this.offset.y, first.offset.y)))

\* this.after(first)
after(this, first) ==
    ZoomTrafo(Mul(this.scale, first.scale),
              Point(Add(this.offset.x, Mul(this.scale, first.offset.x)),
                    Add(this.offset.y, Mul(this.scale, first.offset.y))))

\* ZoomTrafo.scaleContainer: the container's scale, x and y afterwards.
scaleContainer(trafo) == [scale |-> trafo.scale, x |-> trafo.offset.x, y |-> trafo.offset.y]

\* new ContainerLayers(...): the containers have PIXI's default transformation.
NewLayers ==
    [zoom_level |-> 0, userZoom |-> ZoomTrafo(Num(1), Origin),
     contentZoom |-> undefined, dragAnchor |-> undefined, shift |-> undefined,
     applied |-> [scale |-> Num(1), x |-> Num(0), y |-> Num(0)]]

\* new PIXI.Application(1000, 600, ...), not in full screen.
NewView ==
    [width |-> 1000, height |-> 600, fullscreenActive |-> FALSE,
     restoreData |-> undefined]

\* Mutant: the zoom level survives a fit.
applyFitKeepsLevel(l, trafo) ==
    [l EXCEPT !.contentZoom = trafo,
              !.userZoom = ZoomTrafo(Num(1), Origin),
              !.applied = scaleContainer(trafo)]

\* ContainerLayers.applyFit
applyFit(l, trafo) ==
    [l EXCEPT !.contentZoom = trafo, !.zoom_level = 0,
              !.userZoom = ZoomTrafo(Num(1), Origin),
              !.applied = scaleContainer(trafo)]

\* Game.onResize
onResize(l, map, order, v) == applyFit(l, fitIntoFrame(map, order, v.width, v.height))

typeError == "Uncaught TypeError"

\* The zoom factor of one wheel step, 1.2.
zoomBase == Frac(12, 10)

\* ContainerLayers.zoomAt when direction is not 0.
zoomAt(l, direction, position) ==
    LET level == IF direction < 0 THEN l.zoom_level + 1 ELSE l.zoom_level - 1
        zoomStep == setFixPoint(
                       ZoomTrafo(IF direction < 0 THEN zoomBase
                                 ELSE Div(Num(1), zoomBase), Origin),
                       position)
        newZoom == [after(zoomStep, l.userZoom) EXCEPT !.scale = Pow(zoomBase, level)]
    IN  [l EXCEPT !.zoom_level = level, !.userZoom = newZoom,
                  !.applied = scaleContainer(after(newZoom, l.contentZoom))]

\* The dragPoint setter.
setDragPoint(l, p) ==
    LET moved == ZoomTrafo(Num(1), Point(Sub(p.x, l.dragAnchor.x),
                                         Sub(p.y, l.dragAnchor.y)))
    IN  [l EXCEPT !.shift = moved,
                  !.applied = scaleContainer(
                                 after(moved, after(l.userZoom, l.contentZoom)))]

----------------------------------------------------------------------------
(* The reveal requests and the handlers of Cell and PassiveHint.           *)

alreadyRevealed == "Tried to reval an already revealed hex."

\* What a reveal request logs before it looks at the mine flag.
revealLog(cell) == IF cell.revealed THEN <<alreadyRevealed>> ELSE <<>>

\* Mutant: the mine test of tryRevealEmpty is left out.
tryRevealEmptyUnchecked(cell) ==
    updateGraphicProperties([cell EXCEPT !.revealed = TRUE])

\* Mutant: the request flips the revealed flag.
tryRevealEmptyToggles(cell) ==
    IF ~cell.mine
    THEN updateGraphicProperties([cell EXCEPT !.revealed = ~cell.revealed])
    ELSE cell

\* Cell.tryRevealEmpty: the cell afterwards.
tryRevealEmpty(cell) ==
    IF ~cell.mine
    THEN updateGraphicProperties([cell EXCEPT !.revealed = TRUE])
    ELSE cell

\* Mutant: a revealed mine is no mine any more.
tryRevealMineDisarms(cell) ==
    IF cell.mine
    THEN updateGraphicProperties([cell EXCEPT !.revealed = TRUE, !.mine = FALSE])
    ELSE cell

\* Cell.tryRevealMine: the cell afterwards.
tryRevealMine(cell) ==
    IF cell.mine
    THEN updateGraphicProperties([cell EXCEPT !.revealed = TRUE])
    ELSE cell

\* Game.onMineReveal
onMineReveal(value) == value - 1

\* Mutant: onMineReveal is called outside the mine test.
minesAfterTryRevealMineUnchecked(cell, value) == onMineReveal(value)

\* Cell.tryRevealMine: the counter afterwards.
minesAfterTryRevealMine(cell, value) ==
    IF cell.mine THEN onMineReveal(value) ELSE value

\* The "click" handler's test for toggling the region overlay.
clickToggles(cell) ==
    interactionLevel(cell) = "shadowHint" /\ cell.mine /\ cell.hintType = "simple"

\* Mutant: the "rightclick" handler always asks for the mine reveal.
rightClickNeverToggles(cell) == FALSE

\* The "rightclick" handler's test for toggling the hint.
rightClickToggles(cell) == interactionLevel(cell) = "shadowHint"

toggleRegionOverlay(cell) ==
    updateGraphicProperties(
        [cell EXCEPT !.regionOverlayVisible = ~cell.regionOverlayVisible])

\* The hint toggle shared by Cell's and PassiveHint's "rightclick" handlers.
toggleHint(cell) ==
    IF cell.hintEnabled
    THEN IF isPassiveHint(cell)
         THEN [cell EXCEPT !.hintEnabled = FALSE, !.lineOverlayVisible = FALSE]
         ELSE updateGraphicProperties(
                 [cell EXCEPT !.hintEnabled = FALSE, !.regionOverlayVisible = FALSE])
    ELSE IF isPassiveHint(cell)
         THEN [cell EXCEPT !.hintEnabled = TRUE]
         ELSE updateGraphicProperties([cell EXCEPT !.hintEnabled = TRUE])

NoRequest == [op |-> "none"]

\* No generator of GridPoint has been called.
NothingYielded == [gen |-> "none", points |-> <<>>]

Loaded == phase = "loaded"

CellsOf(map) == {p \in DOMAIN map : isCell(map[p])}
HintsOf(map) == {p \in DOMAIN map : isPassiveHint(map[p])}

\* How often the model lets a mine-reveal repeat on a revealed mine: the
\* counter is not taken below -MaxRepeat.
MaxRepeat == 2

\* A call of content.get(c).tryRevealEmpty().
RevealEmptyAt(c) ==
    /\ content' = [content EXCEPT ![c] = tryRevealEmpty(content[c])]
    /\ console' = revealLog(content[c])
    /\ request' = [op |-> "tryRevealEmpty", at |-> c,
                   wasRevealed |-> content[c].revealed]
    /\ UNCHANGED remainingMines

\* A call of content.get(c).tryRevealMine().
RevealMineAt(c) ==
    /\ remainingMines > -MaxRepeat
    /\ content' = [content EXCEPT ![c] = tryRevealMine(content[c])]
    /\ remainingMines' = minesAfterTryRevealMine(content[c], remainingMines)
    /\ console' = revealLog(content[c])
    /\ request' = [op |-> "tryRevealMine", at |-> c,
                   wasRevealed |-> content[c].revealed]

\* The reveal requests as the core's mutation entry points.
TryRevealEmpty(c) ==
    /\ Loaded /\ c \in CellsOf(content)
    /\ RevealEmptyAt(c)
    /\ UNCHANGED <<fileVars, trafoVars, walk, levelData, phase, pointVars, viewVars>>

TryRevealMine(c) ==
    /\ Loaded /\ c \in CellsOf(content)
    /\ RevealMineAt(c)
    /\ UNCHANGED <<fileVars, trafoVars, walk, levelData, phase, pointVars, viewVars>>

\* The pointer events; only an interactive container receives them.
Click(c) ==
    /\ Loaded /\ c \in CellsOf(content) /\ content[c].interactive
    /\ IF clickToggles(content[c])
       THEN /\ content' = [content EXCEPT ![c] = toggleRegionOverlay(content[c])]
            /\ console' = <<>>
            /\ UNCHANGED <<remainingMines, request>>
       ELSE RevealEmptyAt(c)
    /\ UNCHANGED <<fileVars, trafoVars, walk, levelData, phase, pointVars, viewVars>>

RightClick(c) ==
    /\ Loaded /\ c \in CellsOf(content) /\ content[c].interactive
    /\ IF rightClickToggles(content[c])
       THEN /\ content' = [content EXCEPT ![c] = toggleHint(content[c])]
            /\ console' = <<>>
            /\ UNCHANGED <<remainingMines, request>>
       ELSE RevealMineAt(c)
    /\ UNCHANGED <<fileVars, trafoVars, walk, levelData, phase, pointVars, viewVars>>

MouseOver(c) ==
    /\ Loaded /\ c \in CellsOf(content) /\ content[c].interactive
    /\ content' = [content EXCEPT
                      ![c] = updateGraphicProperties([content[c] EXCEPT !.hovered = TRUE])]
    /\ console' = <<>>
    /\ UNCHANGED <<fileVars, trafoVars, walk, levelData, phase, remainingMines, request, pointVars, viewVars>>

MouseOut(c) ==
    /\ Loaded /\ c \in CellsOf(content) /\ content[c].interactive
    /\ content' = [content EXCEPT
                      ![c] = updateGraphicProperties([content[c] EXCEPT !.hovered = FALSE])]
    /\ console' = <<>>
    /\ UNCHANGED <<fileVars, trafoVars, walk, levelData, phase, remainingMines, request, pointVars, viewVars>>

ClickHint(c) ==
    /\ Loaded /\ c \in HintsOf(content) /\ content[c].interactive
    /\ content' = [content EXCEPT
                      ![c].lineOverlayVisible = ~content[c].lineOverlayVisible]
    /\ console' = <<>>
    /\ UNCHANGED <<fileVars, trafoVars, walk, levelData, phase, remainingMines, request, pointVars, viewVars>>

RightClickHint(c) ==
    /\ Loaded /\ c \in HintsOf(content) /\ content[c].interactive
    /\ content' = [content EXCEPT ![c] = toggleHint(content[c])]
    /\ console' = <<>>
    /\ UNCHANGED <<fileVars, trafoVars, walk, levelData, phase, remainingMines, request, pointVars, viewVars>>

----------------------------------------------------------------------------
(* The listeners on app.view: dragging, the wheel, and full screen.        *)

\* Zoom steps and drag starts the model allows between two fits.
MaxGestures == 1

\* Cursor positions (clientX, clientY): where the session presses the button
\* and turns the wheel, and where it moves the pointer.
Anchors == {Point(Num(300), Num(200))}
Positions == Anchors \cup {Point(Num(500), Num(300))}

\* Sizes (clientWidth, clientHeight) of the view in full screen.
ClientSizes == {<<1280, 720>>}

\* "mousedown"; drags: e.button == 1 || (e.button == 0 && e.ctrlKey).
MouseDown(position, drags) ==
    /\ Loaded /\ gestures < MaxGestures
    /\ IF drags
       THEN /\ layers' = [layers EXCEPT !.dragAnchor = position]
            /\ gestures' = gestures + 1
       ELSE UNCHANGED <<layers, gestures>>
    /\ console' = <<>>
    /\ UNCHANGED <<fileVars, trafoVars, walk, levelData, phase, content, remainingMines, request, pointVars, view>>

\* "mousemove"; held: e.buttons & 4 || ((e.buttons & 1) && e.ctrlKey).
\* Without the button the dragAnchor setter takes undefined and composes
\* this.shift, which no dragPoint may have set yet.
MouseMove(position, held) ==
    /\ Loaded
    /\ IF layers.dragAnchor # undefined
       THEN IF held
            THEN /\ layers' = setDragPoint(layers, position)
                 /\ console' = <<>>
            ELSE IF layers.shift = undefined
                 THEN /\ layers' = [layers EXCEPT !.dragAnchor = undefined]
                      /\ console' = <<typeError>>
                 ELSE /\ layers' = [layers EXCEPT
                                       !.dragAnchor = undefined,
                                       !.userZoom = after(layers.shift, layers.userZoom)]
                      /\ console' = <<>>
       ELSE /\ console' = <<>>
            /\ UNCHANGED layers
    /\ UNCHANGED <<fileVars, trafoVars, walk, levelData, phase, content, remainingMines, request, pointVars,
                   view, gestures>>

\* "wheel": zoomAt(e.deltaY, position); with deltaY 0 no zoomStep is made
\* and setting its fixPoint throws before anything is written.
Wheel(direction, position) ==
    /\ Loaded /\ gestures < MaxGestures
    /\ IF direction = 0
       THEN /\ console' = <<typeError>>
            /\ UNCHANGED <<layers, gestures>>
       ELSE /\ layers' = zoomAt(layers, direction, position)
            /\ gestures' = gestures + 1
            /\ console' = <<>>
    /\ UNCHANGED <<fileVars, trafoVars, walk, levelData, phase, content, remainingMines, request, pointVars, view>>

\* app.view.onFullscreenStart, called when the view becomes the full-screen
\* element.
FullscreenStart(size) ==
    /\ Loaded /\ ~view.fullscreenActive
    /\ view' = [width |-> size[1], height |-> size[2], fullscreenActive |-> TRUE,
                restoreData |-> <<view.width, view.height>>]
    /\ layers' = onResize(layers, content, keys(levelData.grid), view')
    /\ gestures' = 0
    /\ console' = <<>>
    /\ UNCHANGED <<fileVars, trafoVars, walk, levelData, phase, content, remainingMines, request, pointVars>>

\* app.view.onFullscreenClose(restoreData), called when full screen ends.
FullscreenClose ==
    /\ Loaded /\ view.fullscreenActive
    /\ view' = [view EXCEPT !.width = view.restoreData[1],
                            !.height = view.restoreData[2],
                            !.fullscreenActive = FALSE]
    /\ layers' = onResize(layers, content, keys(levelData.grid), view')
    /\ gestures' = 0
    /\ console' = <<>>
    /\ UNCHANGED <<fileVars, trafoVars, walk, levelData, phase, content, remainingMines, request, pointVars>>

----------------------------------------------------------------------------
(* Game.loadCurrentLevel.                                                  *)

NoLevel == [title |-> "", author |-> "", grid |-> <<>>]

LoadCurrentLevel ==
    /\ phase = "parsed"
    /\ phase' = "loaded"
    /\ LET grid == Grid(levelData)
       IN  /\ remainingMines' = hiddenMineCount(grid)
           /\ layers' = onResize(layers, grid, keys(levelData.grid), view)
           /\ content' = withContainers(grid)
    /\ gestures' = 0
    /\ console' = <<>>
    /\ UNCHANGED <<fileVars, trafoVars, walk, levelData, request, pointVars, view>>

\* A parsed level before new Level(...) is called on it.
ParsedOnly(level) ==
    /\ file = undefined
    /\ levels = <<level>>
    /\ levelData = level
    /\ phase = "parsed"
    /\ content = <<>>
    /\ remainingMines = 0
    /\ view = NewView
    /\ layers = NewLayers
    /\ gestures = 0
    /\ console = <<>>
    /\ request = NoRequest
    /\ point = <<0, 0>>
    /\ yielded = NothingYielded
    /\ operands = undefined
    /\ outcome = undefined
    /\ walk = undefined

\* The state right after new Game(...) has loaded the level.
LoadedWith(level) ==
    /\ file = undefined
    /\ levels = <<level>>
    /\ levelData = level
    /\ phase = "loaded"
    /\ LET grid == Grid(level)
       IN  /\ remainingMines = hiddenMineCount(grid)
           /\ layers = onResize(NewLayers, grid, keys(level.grid), NewView)
           /\ content = withContainers(grid)
    /\ view = NewView
    /\ gestures = 0
    /\ console = <<>>
    /\ request = NoRequest
    /\ point = <<0, 0>>
    /\ yielded = NothingYielded
    /\ operands = undefined
    /\ outcome = undefined
    /\ walk = undefined

----------------------------------------------------------------------------
(* The game: a loaded level, the reveal requests and the pointer events.   *)

Slots == ParsedCells \cup ParsedPassiveHints \cup {ParsedNull}

\* Two adjacent slots, at GridPoint(0, 0) and GridPoint(1, 1).
GameLevels ==
    {[title |-> "T", author |-> "A",
      grid |-> << <<a, ParsedNull>>, <<ParsedNull, b>> >>] : a \in ParsedCells, b \in Slots}

Init == \E level \in GameLevels : LoadedWith(level)

Next ==
    \/ \E c \in DOMAIN content : TryRevealEmpty(c)
    \/ \E c \in DOMAIN content : TryRevealMine(c)
    \/ \E c \in DOMAIN content : Click(c)
    \/ \E c \in DOMAIN content : RightClick(c)
    \/ \E c \in DOMAIN content : MouseOver(c)
    \/ \E c \in DOMAIN content : MouseOut(c)
    \/ \E c \in DOMAIN content : ClickHint(c)
    \/ \E c \in DOMAIN content : RightClickHint(c)

Spec == Init /\ [][Next]_vars

----------------------------------------------------------------------------
(* Properties of the reveal requests.                                      *)

\* C1: a reveal request on a hidden cell reveals it if and only if the belief
\* matches the mine flag: tryRevealEmpty reveals exactly the non-mine cells,
\* tryRevealMine exactly the mine cells.  (request names the last request and
\* whether its cell was revealed before; no later event hides or reveals.)
C1_RevealIffBeliefMatches ==
    (request.op # "none" /\ ~request.wasRevealed) =>
        (content[request.at].revealed <=>
            ((request.op = "tryRevealMine") <=> content[request.at].mine))

\* A hidden non-mine cell has been revealed by tryRevealEmpty.
C1_Witness ==
    /\ request.op = "tryRevealEmpty" /\ ~request.wasRevealed
    /\ ~content[request.at].mine /\ content[request.at].revealed

\* A step that is a reveal request on c whose belief does not match.
MistakenRequest(c) ==
    \/ content[c].mine /\ RevealEmptyAt(c)
    \/ ~content[c].mine /\ RevealMineAt(c)

\* C2: a mistaken reveal request on a hidden cell changes nothing of the
\* model: the mapping with every revealed flag and caption, and the counter
\* and the hidden-mine count with them, are what they were.
C2_MistakeChangesNothing ==
    [][\A c \in CellsOf(content) :
          (~content[c].revealed /\ MistakenRequest(c)) =>
              /\ content' = content
              /\ remainingMines' = remainingMines
              /\ hiddenMineCount(content') = hiddenMineCount(content)
              /\ UNCHANGED <<levelData, phase>>]_vars

\* A mistaken mine-reveal has been made on a hidden non-mine cell, which is
\* still hidden.
C2_Witness ==
    /\ request.op = "tryRevealMine" /\ ~request.wasRevealed
    /\ ~content[request.at].mine /\ ~content[request.at].revealed

\* C4: a reveal request on an already revealed cell is not carried out: it
\* makes no transition and changes nothing else; in particular a mine-reveal
\* on a revealed mine does not lower the remaining-mine counter again.
C4_RevealedRequestNotCarriedOut ==
    [][\A c \in CellsOf(content) :
          (content[c].revealed /\ (RevealEmptyAt(c) \/ RevealMineAt(c))) =>
              (content' = content /\ remainingMines' = remainingMines)]_vars

----------------------------------------------------------------------------
\* The OccupiedCells that are mines and not revealed.
HiddenMines ==
    {c \in DOMAIN content :
        "mine" \in DOMAIN content[c] /\ content[c].mine /\ ~content[c].revealed}

\* C12: in every reachable state hiddenMineCount is the number of OccupiedCells
\* that are mines and not revealed, line hints never counted; a mine-reveal on
\* a hidden mine lowers it by exactly 1, and an empty-reveal or a mine-reveal
\* that fails leaves it unchanged.
C12_HiddenMineCountCountsHiddenMines ==
    /\ [](hiddenMineCount(content) = Cardinality(HiddenMines))
    /\ [][\A c \in CellsOf(content) :
             /\ (RevealMineAt(c) /\ c \in HiddenMines) =>
                    hiddenMineCount(content') = hiddenMineCount(content) - 1
             /\ (RevealMineAt(c) /\ ~content[c].mine) =>
                    hiddenMineCount(content') = hiddenMineCount(content)
             /\ (RevealEmptyAt(c) /\ ~content[c].revealed) =>
                    hiddenMineCount(content') = hiddenMineCount(content)]_vars

\* A mine-reveal has succeeded on one of two hidden mines; the other is still
\* hidden and is the one mine the count reports.
C12_Witness ==
    /\ request.op = "tryRevealMine" /\ ~request.wasRevealed
    /\ content[request.at].mine /\ content[request.at].revealed
    /\ \E c \in DOMAIN content : c # request.at /\ c \in HiddenMines
    /\ hiddenMineCount(content) = 1

(* A session: the constructor loads a level, then the listeners run in any *)
(* order.                                                                  *)

HiddenMine == [mine |-> TRUE, revealed |-> FALSE, hint |-> "null"]
RevealedEmpty == [mine |-> FALSE, revealed |-> TRUE, hint |-> "simple"]
RevealedMine == [mine |-> TRUE, revealed |-> TRUE, hint |-> "null"]
RightHint == [direction |-> "right", hint |-> "simple"]

\* Two adjacent slots; the first may be revealed in the level file.
SessionLevels ==
    {[title |-> "T", author |-> "A",
      grid |-> << <<ab[1], ParsedNull>>, <<ParsedNull, ab[2]>> >>] :
        ab \in {<<RevealedEmpty, [mine |-> TRUE, revealed |-> FALSE, hint |-> "simple"]>>,
                <<RevealedMine, [mine |-> FALSE, revealed |-> FALSE, hint |-> "typed"]>>,
                <<RightHint, HiddenMine>>}}

InitSession == \E level \in SessionLevels : ParsedOnly(level)

NextSession ==
    \/ LoadCurrentLevel
    \/ \E c \in DOMAIN content : Click(c)
    \/ \E c \in DOMAIN content : RightClick(c)
    \/ \E c \in DOMAIN content : MouseOver(c)
    \/ \E c \in DOMAIN content : MouseOut(c)
    \/ \E c \in DOMAIN content : ClickHint(c)
    \/ \E c \in DOMAIN content : RightClickHint(c)
    \/ \E position \in Anchors, drags \in BOOLEAN : MouseDown(position, drags)
    \/ \E position \in Positions, held \in BOOLEAN : MouseMove(position, held)
    \/ \E direction \in {-1, 0, 1}, position \in Anchors : Wheel(direction, position)
    \/ \E size \in ClientSizes : FullscreenStart(size)
    \/ FullscreenClose

SpecSession == InitSession /\ [][NextSession]_vars

\* The cells the level file marks as revealed.
RevealedInFile ==
    {c \in CellsOf(content) : levelData.grid[c[2] + 1][c[1] + 1].revealed}

\* C3: revealed is terminal: whatever event comes next (click, right-click,
\* hover, zoom, drag, resize), a cell whose revealed flag is true is still
\* there and still revealed afterwards; this includes the cells the level
\* file marks as revealed.
C3_RevealedIsTerminal ==
    [][\A c \in CellsOf(content) :
          content[c].revealed =>
              (c \in DOMAIN content' /\ isCell(content'[c]) /\ content'[c].revealed)]_vars

\* A cell revealed in the file and a cell revealed by a request are both
\* revealed after a zoom step, in full screen, with the pointer on a cell.
C3_Witness ==
    /\ Loaded
    /\ RevealedInFile # {}
    /\ \E c \in CellsOf(content) \ RevealedInFile : content[c].revealed
    /\ \A c \in RevealedInFile : content[c].revealed
    /\ \E c \in CellsOf(content) : content[c].hovered
    /\ layers.zoom_level # 0
    /\ layers.shift # undefined
    /\ view.fullscreenActive

----------------------------------------------------------------------------
(* Caption inputs: parsed levels whose captions Grid's constructor         *)
(* computes.                                                               *)

\* The parsed level of the given size with slot[p] at column p[1], row p[2]
\* and null elsewhere.
levelOf(slot, width, height) ==
    [title |-> "T", author |-> "A",
     grid |-> [i \in 1..height |->
                 [j \in 1..width |->
                     IF <<j - 1, i - 1>> \in DOMAIN slot
                     THEN slot[<<j - 1, i - 1>>] ELSE ParsedNull]]]

HiddenEmpty == [mine |-> FALSE, revealed |-> FALSE, hint |-> "null"]
DownHint == [direction |-> "down", hint |-> "simple"]

\* What an input puts on a coordinate in line with a line hint.
NbSlots == {ParsedNull, HiddenMine, HiddenEmpty, DownHint}

\* What stands on a neighbour that is no mine: nothing, a non-mine cell or a
\* line hint on all of them, or (fill 3) the three by turns.
notMine(fill, k) ==
    LET kinds == <<ParsedNull, HiddenEmpty, DownHint>>
    IN  IF fill < 3 THEN kinds[fill + 1] ELSE kinds[(k % 3) + 1]

\* A non-mine cell with a hint at (1, 2); each of the 64 sets of its 6
\* neighbours holds the mines.
NbhdCentre == <<1, 2>>
NbhdLevels ==
    {levelOf([q \in Range(nbhd(NbhdCentre)) \cup {NbhdCentre} |->
                 IF q = NbhdCentre
                 THEN [mine |-> FALSE, revealed |-> TRUE, hint |-> h]
                 ELSE LET k == CHOOSE k \in 1..6 : nbhd(NbhdCentre)[k] = q
                      IN  IF k \in mines THEN HiddenMine ELSE notMine(fill, k)],
             3, 5) :
        h \in {"simple", "typed"}, mines \in SUBSET (1..6), fill \in 0..3}

\* The subsets of S with at most n elements.
RECURSIVE SubsetsUpTo(_, _)
SubsetsUpTo(S, n) ==
    IF n = 0 THEN {{}}
    ELSE LET smaller == SubsetsUpTo(S, n - 1)
         IN  smaller \cup {m \cup {x} : m \in smaller, x \in S}

\* A mine with a simple hint at (2, 4) and at most MaxMines further mines on
\* the lattice points up to 2 columns and 4 rows away.
MaxMines == 2
BigCentre == <<2, 4>>
BigBox == {q \in (0..4) \X (0..8) : (q[1] + q[2]) % 2 = 0} \ {BigCentre}
BigNbhdLevels ==
    {levelOf([q \in mines \cup {BigCentre} |->
                 IF q = BigCentre
                 THEN [mine |-> TRUE, revealed |-> TRUE, hint |-> "simple"]
                 ELSE HiddenMine], 5, 9) :
        mines \in SubsetsUpTo(BigBox, MaxMines)}

\* A line hint, MaxLine slots on its line, one slot behind it and one beside
\* it (neither is on the line).
lineStart(d) ==
    IF d = "left" THEN <<MaxLine + 1, 1>>
    ELSE IF d = "down" THEN <<2, 2>>
    ELSE <<1, 1>>

lineStepOf(d) ==
    IF d = "left" THEN <<-1, 1>> ELSE IF d = "down" THEN <<0, 2>> ELSE <<1, 1>>

linePoint(d, k) ==
    <<lineStart(d)[1] + k * lineStepOf(d)[1], lineStart(d)[2] + k * lineStepOf(d)[2]>>

LineLevels ==
    {levelOf([q \in {linePoint(d, k) : k \in -1..MaxLine}
                     \cup {plus(lineStart(d), <<0, 1>>)} |->
                 IF q = lineStart(d) THEN [direction |-> d, hint |-> h]
                 ELSE IF q = linePoint(d, -1) THEN behind
                 ELSE IF q = plus(lineStart(d), <<0, 1>>) THEN beside
                 ELSE on[CHOOSE k \in 1..MaxLine : q = linePoint(d, k)]],
             MaxLine + 3, 2 * MaxLine + 3) :
        d \in Directions, h \in {"simple", "typed"},
        on \in [1..MaxLine -> NbSlots],
        behind \in {ParsedNull, HiddenMine}, beside \in {ParsedNull, HiddenMine}}

HintLevels == NbhdLevels \cup BigNbhdLevels \cup LineLevels

InitHint == \E level \in HintLevels : ParsedOnly(level)

NextHint == LoadCurrentLevel

SpecHint == InitHint /\ [][NextHint]_vars

----------------------------------------------------------------------------
(* The lattice, stated apart from the offset lists of GridPoint.           *)

\* Two points of one hexagonal lattice: doubled coordinates of equal parity.
OnLattice(p, q) == (Abs(p[1] - q[1]) + Abs(p[2] - q[2])) % 2 = 0

\* The number of steps between two lattice points; a step changes x by one and
\* y by one, or y alone by two.
HexDistance(p, q) ==
    LET dx == Abs(p[1] - q[1])
        dy == Abs(p[2] - q[2])
    IN  IF dy > dx THEN dx + (dy - dx) \div 2 ELSE dx

AtDistance(p, n) ==
    {q \in ((p[1] - n)..(p[1] + n)) \X ((p[2] - 2 * n)..(p[2] + 2 * n)) :
        OnLattice(p, q) /\ HexDistance(p, q) = n}

\* An OccupiedCell that is a mine / that is no mine stands on q.
MineAt(q) ==
    q \in DOMAIN content /\ "mine" \in DOMAIN content[q] /\ content[q].mine
EmptyCellAt(q) ==
    q \in DOMAIN content /\ "mine" \in DOMAIN content[q] /\ ~content[q].mine
LineHintAt(q) == q \in DOMAIN content /\ "direction" \in DOMAIN content[q]

MinesIn(S) == {q \in S : MineAt(q)}

\* The number of contiguous arcs the mines form on the ring around p: each
\* pair of adjacent mines joins two of them, and 6 mines close the ring.
Arcs(p) ==
    LET M == MinesIn(AtDistance(p, 1))
        joined == {pair \in SUBSET M :
                      Cardinality(pair) = 2
                      /\ \A a, b \in pair : a = b \/ HexDistance(a, b) = 1}
    IN  IF Cardinality(M) = 6 THEN 1 ELSE Cardinality(M) - Cardinality(joined)

Rotated(seq, r) == [k \in 1..Len(seq) |-> seq[((k - 1 + r) % Len(seq)) + 1]]

----------------------------------------------------------------------------
(* Properties of the captions of cells.                                    *)

TypedCells ==
    {p \in CellsOf(content) : ~content[p].mine /\ content[p].hintType = "typed"}
SimpleCells ==
    {p \in CellsOf(content) : ~content[p].mine /\ content[p].hintType = "simple"}
SimpleMines ==
    {p \in CellsOf(content) : content[p].mine /\ content[p].hintType = "simple"}

\* C5: for a non-mine cell with a typed hint the scan counts at least 3 equal
\* consecutive pairs exactly when the neighbouring mines form at most one arc
\* and at most 2 otherwise; the caption is "{n}" for at most one arc and
\* "-n-" for more, n being the number of neighbouring mines; and the scan
\* started at any of the 6 neighbours gives the same caption.
C5_TypedCaptionIsArcCount ==
    Loaded =>
        \A p \in TypedCells :
            LET n == Cardinality(MinesIn(AtDistance(p, 1)))
                scan == typedScan(content, nbhd(p), 6)
            IN  /\ (scan.adjacentPairCounter >= 3) <=> (Arcs(p) <= 1)
                /\ (Arcs(p) >= 2) => (scan.adjacentPairCounter <= 2)
                /\ content[p].caption =
                      IF Arcs(p) <= 1 THEN "{" \o ToString(n) \o "}"
                      ELSE "-" \o ToString(n) \o "-"
                /\ \A r \in 1..5 :
                      typedCaption(typedScan(content, Rotated(nbhd(p), r), 6))
                          = content[p].caption

\* A typed cell whose only mines are the first and the last neighbour of the
\* scan (one arc across the scan's ends) is captioned "{2}".
C5_Witness ==
    /\ Loaded
    /\ \E p \in TypedCells :
          /\ MinesIn(Range(nbhd(p))) = {nbhd(p)[1], nbhd(p)[6]}
          /\ content[p].caption = "{2}"

\* C6: the caption of a non-mine cell with a simple hint is the number of
\* mine cells on the 6 coordinates next to it, between 0 and 6; absent
\* coordinates and line hints are not counted.
C6_SimpleCaptionCountsNeighbours ==
    Loaded =>
        \A p \in SimpleCells :
            LET n == Cardinality(MinesIn(AtDistance(p, 1)))
            IN  content[p].caption = ToString(n) /\ n \in 0..6

\* A simple cell with a mine, a line hint and an absent coordinate next to it
\* is captioned "1".
C6_Witness ==
    /\ Loaded
    /\ \E p \in SimpleCells :
          /\ content[p].caption = "1"
          /\ \E q \in AtDistance(p, 1) : LineHintAt(q)
          /\ \E q \in AtDistance(p, 1) : q \notin DOMAIN content

----------------------------------------------------------------------------
(* Properties of the captions of line hints.                               *)

\* The k-th coordinate on the line of the hint at p.
OnLine(p, k) ==
    <<p[1] + k * lineStepOf(content[p].direction)[1],
      p[2] + k * lineStepOf(content[p].direction)[2]>>

\* A step raises y by at least 1 and no y is negative, so the line has left
\* the populated rows after Reach steps.
Reach ==
    LET rows == {q[2] : q \in DOMAIN content}
    IN  (CHOOSE y \in rows : \A z \in rows : z <= y) + 1

LineMines(p) == {k \in 1..Reach : MineAt(OnLine(p, k))}

InsideBound == \A q \in DOMAIN content : q[2] < yLimit

\* C8: the count of a line hint at c is the number of mine cells on the
\* coordinates c + k*delta, k >= 1, delta being (-1,1), (0,2), (1,1) for
\* left, down, right, in a grid whose rows lie inside the bound; a simple
\* line hint's caption is that count.
C8_LineCountIsMinesOnLine ==
    (Loaded /\ InsideBound) =>
        \A p \in HintsOf(content) :
            /\ lineResult(content, p).count = Cardinality(LineMines(p))
            /\ content[p].hintType = "simple" =>
                  content[p].caption = ToString(Cardinality(LineMines(p)))

\* A simple left hint with a mine behind it and one beside it, and on its
\* line a mine, a further line hint and a mine, is captioned "2".
C8_Witness ==
    /\ Loaded
    /\ \E p \in HintsOf(content) :
          /\ content[p].direction = "left" /\ content[p].hintType = "simple"
          /\ MineAt(OnLine(p, -1)) /\ MineAt(plus(p, <<0, 1>>))
          /\ MineAt(OnLine(p, 1)) /\ LineHintAt(OnLine(p, 2)) /\ MineAt(OnLine(p, 3))
          /\ content[p].caption = "2"

\* A non-mine cell of the line lies between two of its mines.
Split(p) ==
    \E i, j, l \in 1..Reach :
        i < j /\ j < l /\ i \in LineMines(p) /\ l \in LineMines(p)
        /\ EmptyCellAt(OnLine(p, j))

\* C9: a typed line hint is captioned "0" exactly when its line holds no
\* mine, "-count-" exactly when a non-mine cell lies between two mines of the
\* line, and "{count}" exactly when there are mines and no such cell.
C9_TypedLineCaption ==
    (Loaded /\ InsideBound) =>
        \A p \in HintsOf(content) :
            content[p].hintType = "typed" =>
                LET n == Cardinality(LineMines(p))
                IN  content[p].caption =
                       IF n = 0 THEN "0"
                       ELSE IF Split(p) THEN "-" \o ToString(n) \o "-"
                       ELSE "{" \o ToString(n) \o "}"

\* A typed hint whose line holds a mine, an empty slot and a mine is
\* captioned "{2}".
C9_Witness ==
    /\ Loaded
    /\ \E p \in HintsOf(content) :
          /\ content[p].hintType = "typed"
          /\ MineAt(OnLine(p, 1)) /\ OnLine(p, 2) \notin DOMAIN content
          /\ MineAt(OnLine(p, 3))
          /\ content[p].caption = "{2}"

----------------------------------------------------------------------------
(* GridPoint on its own: a point and the generators called on it.          *)

Coords == (-MaxCoord)..MaxCoord

InitPoint ==
    /\ point \in Coords \X Coords
    /\ yielded = NothingYielded
    /\ operands = undefined
    /\ outcome = undefined
    /\ walk = undefined
    /\ file = undefined
    /\ levels = undefined
    /\ levelData = NoLevel
    /\ phase = "parsed"
    /\ content = <<>>
    /\ remainingMines = 0
    /\ view = NewView
    /\ layers = NewLayers
    /\ gestures = 0
    /\ console = <<>>
    /\ request = NoRequest

\* for (let neighbor of point.nbhd()) ...: the points the generator yields.
CallNbhd ==
    /\ yielded' = [gen |-> "nbhd", points |-> nbhd(point)]
    /\ UNCHANGED <<fileVars, trafoVars, walk, levelData, phase, content, remainingMines,
                   console, request, point, viewVars>>

\* for (let neighbor of point.bigNbhd()) ...
CallBigNbhd ==
    /\ yielded' = [gen |-> "bigNbhd", points |-> bigNbhd(point)]
    /\ UNCHANGED <<fileVars, trafoVars, walk, levelData, phase, content, remainingMines,
                   console, request, point, viewVars>>

NextPoint == CallNbhd \/ CallBigNbhd

SpecPoint == InitPoint /\ [][NextPoint]_vars

\* C10: nbhd yields exactly 6 pairwise distinct coordinates, none of them the
\* point itself, and the point is among the neighbours of each of them.
C10_SixDistinctSymmetricNeighbours ==
    yielded.gen = "nbhd" =>
        /\ Len(yielded.points) = 6
        /\ \A j, k \in 1..Len(yielded.points) :
              j # k => yielded.points[j] # yielded.points[k]
        /\ \A k \in 1..Len(yielded.points) :
              /\ yielded.points[k] # point
              /\ \E j \in 1..Len(nbhd(yielded.points[k])) :
                    nbhd(yielded.points[k])[j] = point

\* nbhd has been called on a point with negative coordinates.
C10_Witness ==
    yielded.gen = "nbhd" /\ point = <<-1, -2>> /\ Len(yielded.points) = 6

----------------------------------------------------------------------------
(* The captions as a function of the level: small levels, loaded, and      *)
(* makeCaptions called on the grid once more.                              *)

\* Two rows of three slots: GridPoint(0, 0) and GridPoint(2, 0) in the first
\* row and, next to both of them, GridPoint(1, 1) in the second.
CaptionLevels ==
    {[title |-> "T", author |-> "A",
      grid |-> << <<a, ParsedNull, c>>, <<ParsedNull, b, ParsedNull>> >>] :
        a \in Slots, b \in Slots,
        c \in {ParsedNull, HiddenMine, RevealedEmpty}}

InitCaption == \E level \in CaptionLevels : ParsedOnly(level)

\* this.currentLevel.grid.makeCaptions(), after the constructor's call.
MakeCaptionsAgain ==
    /\ Loaded
    /\ content' = makeCaptions(content, keys(levelData.grid))
    /\ request' = [op |-> "makeCaptions"]
    /\ console' = <<>>
    /\ UNCHANGED <<fileVars, trafoVars, walk, levelData, phase, remainingMines, pointVars, viewVars>>

NextCaption == LoadCurrentLevel \/ MakeCaptionsAgain

SpecCaption == InitCaption /\ [][NextCaption]_vars

captions(map) == [p \in DOMAIN map |-> map[p].caption]

\* The level with the revealed flag set on the cells of R and cleared on the
\* other cells.
withRevealed(level, R) ==
    [level EXCEPT !.grid =
        [i \in DOMAIN level.grid |->
            [j \in DOMAIN level.grid[i] |->
                IF isParsedCell(level.grid[i][j])
                THEN [level.grid[i][j] EXCEPT !.revealed = (<<j - 1, i - 1>> \in R)]
                ELSE level.grid[i][j]]]]

\* The orders in which the entries of a sequence can be visited.
Orders(seq) ==
    {f \in [1..Len(seq) -> Range(seq)] : \A j, k \in 1..Len(seq) : j # k => f[j] # f[k]}

\* C13: the captions depend on the placement only: every level that differs
\* from the loaded one in revealed flags alone gets the same captions, every
\* iteration order over the entities gives the same captions, and a second
\* run of makeCaptions leaves every caption as it was.
C13_CaptionsDependOnPlacementOnly ==
    /\ [](Loaded =>
            /\ \A R \in SUBSET Range(keys(levelData.grid)) :
                  captions(Grid(withRevealed(levelData, R))) = captions(content)
            /\ \A order \in Orders(keys(levelData.grid)) :
                  captions(makeCaptions(placed(levelData.grid), order))
                      = captions(content))
    /\ [][MakeCaptionsAgain => captions(content') = captions(content)]_vars

\* makeCaptions has run a second time on a level of three entities, one of
\* them a revealed mine beside a cell with a hint.
C13_Witness ==
    /\ request.op = "makeCaptions"
    /\ Cardinality(DOMAIN content) = 3
    /\ \E p, q \in CellsOf(content) :
          /\ content[p].mine /\ content[p].revealed
          /\ ~content[q].mine /\ content[q].hintType = "simple"
          /\ content[q].caption = "1"

\* The coordinates (x = column, y = row, both from 0) of the non-empty slots
\* of the loaded level's grid.
NonEmptySlots ==
    UNION {{<<j - 1, i - 1>> : j \in {k \in DOMAIN levelData.grid[i] :
                                        levelData.grid[i][k] # ParsedNull}} :
           i \in DOMAIN levelData.grid}

slotAt(p) == levelData.grid[p[2] + 1][p[1] + 1]

\* C14: the grid holds an entity at (x = column j, y = row i) exactly for the
\* non-empty slots: a cell with the slot's revealed, mine and hint values for
\* a cell slot, a line hint with the slot's direction and hint kind for a
\* line-hint slot, nothing for an empty slot; there are as many entities as
\* non-empty slots.
C14_EntitiesAreTheNonEmptySlots ==
    Loaded =>
        /\ DOMAIN content = NonEmptySlots
        /\ Len(keys(levelData.grid)) = Cardinality(NonEmptySlots)
        /\ Cardinality(DOMAIN content) = Cardinality(NonEmptySlots)
        /\ \A p \in NonEmptySlots :
              IF "mine" \in DOMAIN slotAt(p)
              THEN /\ "mine" \in DOMAIN content[p] /\ "direction" \notin DOMAIN content[p]
                   /\ content[p].revealed = slotAt(p).revealed
                   /\ content[p].mine = slotAt(p).mine
                   /\ content[p].hintType = slotAt(p).hint
              ELSE /\ "direction" \in DOMAIN content[p] /\ "mine" \notin DOMAIN content[p]
                   /\ content[p].direction = slotAt(p).direction
                   /\ content[p].hintType = slotAt(p).hint

\* A level with an empty slot at GridPoint(2, 0), a line hint at (0, 0) and a
\* hidden mine at (1, 1) has been loaded.
C14_Witness ==
    /\ Loaded
    /\ DOMAIN content = {<<0, 0>>, <<1, 1>>}
    /\ LineHintAt(<<0, 0>>) /\ content[<<0, 0>>].direction = "right"
    /\ MineAt(<<1, 1>>) /\ ~content[<<1, 1>>].revealed

----------------------------------------------------------------------------
(* The level parser: the PEG grammar of the level file.  A text is a       *)
(* sequence of one-character strings.  A rule applied at a position either *)
(* fails or succeeds with the position after the match and a value; a      *)
(* choice takes its first alternative that matches, and a repetition takes *)
(* as many matches as there are and never gives one back.                  *)
(*                                                                         *)
(* The result of a rule is bound as the element of a one-element set where *)
(* a LET would do: TLC evaluates the element once, when it binds it, while *)
(* it may evaluate the body of a LET anew at every use.                    *)

The(S) == CHOOSE x \in S : TRUE

Fail == [ok |-> FALSE]
Match(pos, value) == [ok |-> TRUE, pos |-> pos, value |-> value]

\* The character at position i, or "" after the end of the input.
at(s, i) == IF i \in 1..Len(s) THEN s[i] ELSE ""

\* A literal of the grammar.
literal(s, i, lit) ==
    IF i + Len(lit) - 1 <= Len(s) /\ SubSeq(s, i, i + Len(lit) - 1) = lit
    THEN Match(i + Len(lit), lit)
    ELSE Fail

firstCellSymbol(s, i) ==
    IF at(s, i) = "x" THEN Match(i + 1, [mine |-> TRUE, revealed |-> FALSE])
    ELSE IF at(s, i) = "X" THEN Match(i + 1, [mine |-> TRUE, revealed |-> TRUE])
    ELSE IF at(s, i) = "o" THEN Match(i + 1, [mine |-> FALSE, revealed |-> FALSE])
    ELSE IF at(s, i) = "O" THEN Match(i + 1, [mine |-> FALSE, revealed |-> TRUE])
    ELSE Fail

\* obj.hint = ...; return obj
withHint(obj, hint) ==
    [mine |-> obj.mine, revealed |-> obj.revealed, hint |-> hint]

\* Mutant: the second character "." is read as a simple hint.
occupiedCellDotSimple(s, i) ==
    The({IF ~obj.ok THEN Fail
         ELSE IF at(s, obj.pos) \in {".", "+"}
         THEN Match(obj.pos + 1, withHint(obj.value, "simple"))
         ELSE IF at(s, obj.pos) \in {"c", "n"}
         THEN Match(obj.pos + 1, withHint(obj.value, "typed"))
         ELSE Fail :
            obj \in {firstCellSymbol(s, i)}})

occupiedCell(s, i) ==
    The({IF ~obj.ok THEN Fail
         ELSE IF at(s, obj.pos) = "."
         THEN Match(obj.pos + 1, withHint(obj.value, "null"))
         ELSE IF at(s, obj.pos) = "+"
         THEN Match(obj.pos + 1, withHint(obj.value, "simple"))
         ELSE IF at(s, obj.pos) \in {"c", "n"}
         THEN Match(obj.pos + 1, withHint(obj.value, "typed"))
         ELSE Fail :
            obj \in {firstCellSymbol(s, i)}})

rowCount(s, i) ==
    IF literal(s, i, <<"/", "+">>).ok
    THEN Match(i + 2, [direction |-> "left", hint |-> "simple"])
    ELSE IF literal(s, i, <<"|", "+">>).ok
    THEN Match(i + 2, [direction |-> "down", hint |-> "simple"])
    ELSE IF literal(s, i, <<"\\", "+">>).ok
    THEN Match(i + 2, [direction |-> "right", hint |-> "simple"])
    ELSE IF literal(s, i, <<"/", "c">>).ok \/ literal(s, i, <<"/", "n">>).ok
    THEN Match(i + 2, [direction |-> "left", hint |-> "typed"])
    ELSE IF literal(s, i, <<"|", "c">>).ok \/ literal(s, i, <<"|", "n">>).ok
    THEN Match(i + 2, [direction |-> "down", hint |-> "typed"])
    ELSE IF literal(s, i, <<"\\", "c">>).ok \/ literal(s, i, <<"\\", "n">>).ok
    THEN Match(i + 2, [direction |-> "right", hint |-> "typed"])
    ELSE Fail

cell(s, i) ==
    IF literal(s, i, <<".", ".">>).ok THEN Match(i + 2, ParsedNull)
    ELSE The({IF occupied.ok THEN occupied ELSE rowCount(s, i) :
                 occupied \in {occupiedCell(s, i)}})

\* cell*: the values of the cells matched from i on, and where they end.
RECURSIVE cellStar(_, _)
cellStar(s, i) ==
    The({IF ~first.ok THEN Match(i, <<>>)
         ELSE The({Match(rest.pos, <<first.value>> \o rest.value) :
                      rest \in {cellStar(s, first.pos)}}) :
            first \in {cell(s, i)}})

\* line = content:cell+ ("\n"?) {return content}
line(s, i) ==
    The({IF cells.value = <<>> THEN Fail
         ELSE Match(IF at(s, cells.pos) = "\n" THEN cells.pos + 1 ELSE cells.pos,
                    cells.value) :
            cells \in {cellStar(s, i)}})

RECURSIVE lineStar(_, _)
lineStar(s, i) ==
    The({IF ~first.ok THEN Match(i, <<>>)
         ELSE The({Match(rest.pos, <<first.value>> \o rest.value) :
                      rest \in {lineStar(s, first.pos)}}) :
            first \in {line(s, i)}})

\* grid = (line)+
grid(s, i) ==
    The({IF lines.value = <<>> THEN Fail ELSE lines : lines \in {lineStar(s, i)}})

\* [^\n]*: the text up to the next line end.
RECURSIVE notNewlineStar(_, _)
notNewlineStar(s, i) ==
    IF at(s, i) \in {"\n", ""} THEN Match(i, "")
    ELSE The({Match(rest.pos, at(s, i) \o rest.value) :
                 rest \in {notNewlineStar(s, i + 1)}})

\* name = [^\n]+ {return text()}
name(s, i) ==
    The({IF chars.pos = i THEN Fail ELSE chars : chars \in {notNewlineStar(s, i)}})

\* "\n"*: the position after the line ends at i.
RECURSIVE newlineStar(_, _)
newlineStar(s, i) == IF at(s, i) = "\n" THEN newlineStar(s, i + 1) ELSE i

header ==
    <<"H", "e", "x", "c", "e", "l", "l", "s", " ", "l", "e", "v", "e", "l", " ",
      "v", "1", "\n">>

\* level = "Hexcells level v1\n" title:name "\n" author:name "\n"+ grid:grid "\n"*
\*   {return {title: title, author: author, grid: grid}}
\* The rule from grid:grid on, from author:name on, and from title:name on.
levelGrid(s, i, title, author) ==
    The({IF ~rows.ok THEN Fail
         ELSE Match(newlineStar(s, rows.pos),
                    [title |-> title, author |-> author, grid |-> rows.value]) :
            rows \in {grid(s, i)}})

levelAuthor(s, i, title) ==
    The({IF author.ok /\ at(s, author.pos) = "\n"
         THEN The({levelGrid(s, from, title, author.value) :
                      from \in {newlineStar(s, author.pos)}})
         ELSE Fail :
            author \in {name(s, i)}})

levelTitle(s, i) ==
    The({IF title.ok /\ at(s, title.pos) = "\n"
         THEN levelAuthor(s, title.pos + 1, title.value)
         ELSE Fail :
            title \in {name(s, i)}})

level(s, i) ==
    The({IF head.ok THEN levelTitle(s, head.pos) ELSE Fail :
            head \in {literal(s, i, header)}})

RECURSIVE levelStar(_, _)
levelStar(s, i) ==
    The({IF ~first.ok THEN Match(i, <<>>)
         ELSE The({Match(rest.pos, <<first.value>> \o rest.value) :
                      rest \in {levelStar(s, first.pos)}}) :
            first \in {level(s, i)}})

\* start = level+
start(s, i) ==
    The({IF all.value = <<>> THEN Fail ELSE all : all \in {levelStar(s, i)}})

\* The generated parse(file): the value of start if it matches the whole
\* input, a SyntaxError otherwise.
parse(s) ==
    The({IF result.ok /\ result.pos = Len(s) + 1 THEN result ELSE Fail :
            result \in {start(s, 1)}})

syntaxError == "SyntaxError"

\* this.levels = parseLevelFile(game_data.content); this.currentLevelIndex = 0.
\* A SyntaxError leaves the constructor and no level is there.
ParseLevelFile ==
    /\ phase = "file"
    /\ \E result \in {parse(file)} :
           IF result.ok
           THEN /\ levels' = result.value
                /\ levelData' = result.value[1]
                /\ phase' = "parsed"
                /\ console' = <<>>
           ELSE /\ phase' = "failed"
                /\ console' = <<syntaxError>>
                /\ UNCHANGED <<levels, levelData>>
    /\ UNCHANGED <<file, trafoVars, walk, content, remainingMines, request, pointVars, viewVars>>

----------------------------------------------------------------------------
(* Level files: the texts handed to the parser.                            *)

\* Tokens in a row of the files with several rows: 1..MaxTokens.
MaxTokens == 2

RECURSIVE rowText(_)
rowText(row) == IF row = <<>> THEN <<"\n">> ELSE Head(row) \o rowText(Tail(row))

RECURSIVE rowsText(_)
rowsText(rows) ==
    IF rows = <<>> THEN <<>> ELSE rowText(Head(rows)) \o rowsText(Tail(rows))

\* A file of one level: the first line, the title "T", the author "A", an
\* empty line, and the rows, each a sequence of two-character tokens.
FileOf(firstLine, rows) ==
    firstLine \o <<"T", "\n", "A", "\n", "\n">> \o rowsText(rows)

Symbols == {".", "x", "X", "o", "O", "+", "c", "n", "/", "|", "\\", "\n", "a", " "}
Tokens == Symbols \X Symbols

RowTokens == {<<".", ".">>, <<"x", "+">>, <<"|", "c">>}
Rows == UNION {[1..n -> RowTokens] : n \in 1..MaxTokens}

\* First lines: the header of the grammar, and lines that are not it.
FirstLines ==
    {header,
     <<>>,
     <<"\n">>,
     SubSeq(header, 1, 16) \o <<"2", "\n">>,
     <<"h">> \o SubSeq(header, 2, 18),
     <<" ">> \o header,
     SubSeq(header, 1, 17) \o <<" ", "\n">>,
     SubSeq(header, 1, 17) \o <<"\n", "\n">>,
     SubSeq(header, 1, 17)}

TokenFiles == {FileOf(header, << <<t>> >>) : t \in Tokens}
RowFiles == {FileOf(header, <<r1, r2>>) : r1 \in Rows, r2 \in Rows}
FirstLineFiles == {FileOf(h, << <<<<"x", "+">>>> >>) : h \in FirstLines}
\* A level with the header, an empty line, and a second level.
TwoLevelFiles ==
    {FileOf(header, << <<<<"o", ".">>>> >>) \o <<"\n">> \o FileOf(h, << <<<<"x", "+">>>> >>) :
        h \in FirstLines}

Files == TokenFiles \cup RowFiles \cup FirstLineFiles \cup TwoLevelFiles

\* new Game({content: file}) before the constructor parses the file.
InitParse ==
    /\ file \in Files
    /\ levels = undefined
    /\ levelData = NoLevel
    /\ phase = "file"
    /\ content = <<>>
    /\ remainingMines = 0
    /\ view = NewView
    /\ layers = NewLayers
    /\ gestures = 0
    /\ console = <<>>
    /\ request = NoRequest
    /\ point = <<0, 0>>
    /\ yielded = NothingYielded
    /\ operands = undefined
    /\ outcome = undefined
    /\ walk = undefined

NextParse == ParseLevelFile \/ LoadCurrentLevel

SpecParse == InitParse /\ [][NextParse]_vars

\* The tokens of the level format and what each stands for.
CellTokens == {"x", "X", "o", "O"} \X {".", "+", "c", "n"}
HintTokens == {"/", "|", "\\"} \X {"+", "c", "n"}
Accepted == {<<".", ".">>} \cup CellTokens \cup HintTokens

hintOf(second) ==
    IF second = "." THEN "null" ELSE IF second = "+" THEN "simple" ELSE "typed"

Meaning(t) ==
    IF t = <<".", ".">> THEN ParsedNull
    ELSE IF t \in CellTokens
    THEN [mine |-> t[1] \in {"x", "X"}, revealed |-> t[1] \in {"X", "O"},
          hint |-> hintOf(t[2])]
    ELSE [direction |-> IF t[1] = "/" THEN "left"
                        ELSE IF t[1] = "|" THEN "down" ELSE "right",
          hint |-> hintOf(t[2])]

Parsed == phase \in {"parsed", "loaded"}
Rejected == phase = "failed" /\ levels = undefined /\ console = <<syntaxError>>

\* C15: the grammar maps each 2-character token to its slot (".." empty; x, X,
\* o, O a hidden mine, revealed mine, hidden empty, revealed empty cell with
\* no hint for ".", a simple hint for "+", a typed one for "c" or "n"; "/",
\* "|", "\" a line hint pointing left, down, right, simple for "+", typed for
\* "c" or "n") and rejects every other token, a line hint with "." among them.
C15_TokensMapToSlots ==
    phase # "file" =>
        /\ \A t \in Tokens :
              file = FileOf(header, << <<t>> >>) =>
                  IF t \in Accepted
                  THEN /\ Parsed
                       /\ levels = <<[title |-> "T", author |-> "A",
                                      grid |-> << <<Meaning(t)>> >>]>>
                  ELSE Rejected
        /\ \A r1, r2 \in Rows :
              (Len(r1) = Len(r2) /\ file = FileOf(header, <<r1, r2>>)) =>
                  /\ Parsed
                  /\ levels[1].grid = <<[k \in 1..Len(r1) |-> Meaning(r1[k])],
                                        [k \in 1..Len(r2) |-> Meaning(r2[k])]>>

\* The file whose one token is "Xn" has been parsed to a revealed mine with a
\* typed hint.
C15_Witness ==
    /\ phase = "parsed"
    /\ file = FileOf(header, << <<<<"X", "n">>>> >>)
    /\ levels[1].grid[1][1] = [mine |-> TRUE, revealed |-> TRUE, hint |-> "typed"]

\* C16 as stated: a file whose rows do not all hold the same number of tokens
\* fails with a syntax error and yields no level, and so does a file whose
\* first line is not exactly the header.
C16_RaggedRowsAndBadHeaderFail ==
    phase # "file" =>
        /\ \A r1, r2 \in Rows :
              (Len(r1) # Len(r2) /\ file = FileOf(header, <<r1, r2>>)) => Rejected
        /\ \A h \in FirstLines \ {header} :
              file = FileOf(h, << <<<<"x", "+">>>> >>) => Rejected

----------------------------------------------------------------------------
(* Fitting a level into the frame: levels of up to three entities, loaded, *)
(* and refitted when the view enters and leaves full screen.               *)

\* Sizes of the view in full screen, a degenerate one among them.
FrameSizes == {<<1280, 720>>, <<800, 800>>, <<1, 3>>}

InitFit == \E parsed \in CaptionLevels : ParsedOnly(parsed)

NextFit ==
    \/ LoadCurrentLevel
    \/ \E size \in FrameSizes : FullscreenStart(size)
    \/ FullscreenClose

SpecFit == InitFit /\ [][NextFit]_vars

\* Where an entity is shown, in the grid's own coordinates: a cell at its
\* pixel position, a line hint shifted by the offset of its direction.
ShownAt(p) ==
    LET shift == IF LineHintAt(p) THEN boundingCenterOffset(content[p])
                 ELSE Point(Num(0), Num(0))
    IN  Point(Add(Frac(3 * p[1], 2), shift.x), Add(Frac(433 * p[2], 500), shift.y))

Lowest(S) == CHOOSE v \in S : \A u \in S : ~Less(u, v)
Highest(S) == CHOOSE v \in S : \A u \in S : ~Less(v, u)
Middle(S) == Div(Add(Lowest(S), Highest(S)), Num(2))

\* The centre of the bounding box of the entities.
BoxCentre ==
    Point(Middle({ShownAt(p).x : p \in DOMAIN content}),
          Middle({ShownAt(p).y : p \in DOMAIN content}))

\* C17: for a grid with at least one entity and every frame, the transform
\* fitIntoFrame returns, which applyFit keeps as contentZoom, maps the centre
\* of the bounding box of the entities to the centre of the frame.
C17_FitCentresTheBoundingBox ==
    (Loaded /\ DOMAIN content # {}) =>
        apply(layers.contentZoom, BoxCentre)
            = Point(Frac(view.width, 2), Frac(view.height, 2))

\* A level with a line hint pointing left at the left edge and two cells has
\* been fitted into a full-screen frame that is not the first one.
C17_Witness ==
    /\ Loaded /\ view.fullscreenActive /\ view.width = 800
    /\ Cardinality(DOMAIN content) = 3
    /\ LineHintAt(<<0, 0>>) /\ content[<<0, 0>>].direction = "left"
    /\ MineAt(<<1, 1>>)

\* C18 as stated: fitIntoFrame on a grid with no entity fails with an error
\* and returns no transform.
C18_EmptyGridFitFails ==
    (Loaded /\ DOMAIN content = {}) =>
        layers.contentZoom = undefined /\ console # <<>>

----------------------------------------------------------------------------
(* ZoomTrafo on its own: three transformations and a point, and the        *)
(* methods called on them.                                                 *)

Scales == {Frac(1, 2), Num(1), Frac(6, 5)}
Offsets == {Point(Num(0), Num(0)), Point(Num(30), Num(-20)), Point(Frac(-5, 2), Num(7))}
Trafos == {ZoomTrafo(scale, offset) : scale \in Scales, offset \in Offsets}

InitTrafo ==
    /\ operands \in [first : Trafos, second : Trafos, third : Trafos, p : Offsets]
    /\ outcome = undefined
    /\ walk = undefined
    /\ file = undefined
    /\ levels = undefined
    /\ levelData = NoLevel
    /\ phase = "parsed"
    /\ content = <<>>
    /\ remainingMines = 0
    /\ view = NewView
    /\ layers = NewLayers
    /\ gestures = 0
    /\ console = <<>>
    /\ request = NoRequest
    /\ point = <<0, 0>>
    /\ yielded = NothingYielded

TrafoFrame ==
    UNCHANGED <<fileVars, walk, levelData, phase, content, remainingMines, console,
                request, pointVars, viewVars>>

\* second.after(first): a new ZoomTrafo is returned, nothing is assigned to
\* this or to first.
CallAfter ==
    /\ outcome' = [method |-> "after", value |-> after(operands.second, operands.first)]
    /\ UNCHANGED operands
    /\ TrafoFrame

\* first.apply(p)
CallApply ==
    /\ outcome' = [method |-> "apply", value |-> apply(operands.first, operands.p)]
    /\ UNCHANGED operands
    /\ TrafoFrame

\* first.fixPoint = p
SetFixPoint ==
    /\ operands' = [operands EXCEPT !.first = setFixPoint(operands.first, operands.p)]
    /\ outcome' = [method |-> "fixPoint", value |-> undefined]
    /\ TrafoFrame

NextTrafo == CallAfter \/ CallApply \/ SetFixPoint

SpecTrafo == InitTrafo /\ [][NextTrafo]_vars

\* C19: for all transformations and points, applying second.after(first) is
\* applying first and then second; after modifies neither operand; and
\* composition is associative.
C19_AfterComposes ==
    /\ [](apply(after(operands.second, operands.first), operands.p)
              = apply(operands.second, apply(operands.first, operands.p)))
    /\ [](after(operands.third, after(operands.second, operands.first))
              = after(after(operands.third, operands.second), operands.first))
    /\ [][CallAfter =>
             /\ operands' = operands
             /\ apply(outcome'.value, operands.p)
                    = apply(operands.second, apply(operands.first, operands.p))]_vars

\* after has been called on two transformations that both scale and shift,
\* and they do not commute.
C19_Witness ==
    /\ outcome # undefined /\ outcome.method = "after"
    /\ operands.first.scale = Frac(6, 5) /\ operands.second.scale = Frac(1, 2)
    /\ operands.first.offset # Origin /\ operands.second.offset # Origin
    /\ outcome.value # after(operands.first, operands.second)

\* C20: for every transformation and point p, after first.fixPoint = p the
\* transformation maps p to itself and its scale is what it was.
C20_FixPointIsFixed ==
    [][SetFixPoint =>
          /\ apply(operands'.first, operands'.p) = operands.p
          /\ operands'.p = operands.p
          /\ operands'.first.scale = operands.first.scale]_vars

\* The fixPoint of a transformation that scales has been set to a point that
\* is not the origin, which moved its offset.
C20_Witness ==
    /\ outcome # undefined /\ outcome.method = "fixPoint"
    /\ operands.first.scale = Frac(6, 5)
    /\ operands.p = Point(Num(30), Num(-20))
    /\ operands.first.offset = Point(Num(-6), Num(4))

----------------------------------------------------------------------------
(* The view of a session: fits, zoom steps and drags.                      *)

\* A step that fits the level into the frame.
Fit == LoadCurrentLevel \/ FullscreenClose \/ \E size \in ClientSizes : FullscreenStart(size)

\* A step of one of the two mouse listeners that drag.
Drag ==
    \/ \E position \in Anchors, drags \in BOOLEAN : MouseDown(position, drags)
    \/ \E position \in Positions, held \in BOOLEAN : MouseMove(position, held)

Displayed(applied, g) ==
    Point(Add(Mul(applied.scale, g.x), applied.x), Add(Mul(applied.scale, g.y), applied.y))

\* The grid point the containers' transformation shows at screen position p.
GridPointAt(applied, p) ==
    Point(Div(Sub(p.x, applied.x), applied.scale), Div(Sub(p.y, applied.y), applied.scale))

\* C22: a zoom step anchors on the cursor: the grid point displayed at the
\* cursor position before zoomAt(direction, position) is displayed at that
\* position afterwards, also while a drag is in progress.
C22_ZoomAnchorsOnCursor ==
    [][\A position \in Anchors, direction \in {-1, 1} :
          Wheel(direction, position) =>
              Displayed(layers'.applied, GridPointAt(layers.applied, position))
                  = position]_vars

----------------------------------------------------------------------------
(* What the events of a session write in the grid.                         *)

\* The fields of an entity that the level describes, revealed apart.
Described(entity) ==
    IF isCell(entity)
    THEN [kind |-> "Cell", mine |-> entity.mine, hintType |-> entity.hintType,
          caption |-> entity.caption]
    ELSE [kind |-> "PassiveHint", direction |-> entity.direction,
          hintType |-> entity.hintType, caption |-> entity.caption]

\* C23: once the Grid is constructed, no event (click, right-click, hover,
\* zoom, drag, resize) adds or removes a coordinate or changes an entity's
\* mine flag, hint kind, direction or caption; of these fields only a cell's
\* revealed flag is written.
C23_OnlyRevealedIsWritten ==
    [][Loaded =>
          /\ DOMAIN content' = DOMAIN content
          /\ \A c \in DOMAIN content : Described(content'[c]) = Described(content[c])]_vars

\* A click and a right-click have each revealed a cell, a hint is switched
\* off, and the view is zoomed in full screen.
C23_Witness ==
    /\ Loaded
    /\ \E c \in CellsOf(content) \ RevealedInFile : content[c].revealed /\ content[c].mine
    /\ \E c \in DOMAIN content : ~content[c].hintEnabled
    /\ layers.zoom_level # 0
    /\ view.fullscreenActive

----------------------------------------------------------------------------
(* Grid.makeCaptions pass by pass: the for loop over the entries and the   *)
(* while loop of a line hint.                                              *)

\* A line hint and MaxLine slots on its line.
WalkLevels ==
    {levelOf([q \in {linePoint(d, k) : k \in 0..MaxLine} |->
                 IF q = lineStart(d) THEN [direction |-> d, hint |-> h]
                 ELSE on[CHOOSE k \in 1..MaxLine : q = linePoint(d, k)]],
             MaxLine + 3, 2 * MaxLine + 3) :
        d \in Directions, h \in {"simple", "typed"},
        on \in [1..MaxLine -> {ParsedNull, HiddenMine, HiddenEmpty}]}

InitWalk == \E parsed \in WalkLevels : ParsedOnly(parsed)

WalkFrame ==
    UNCHANGED <<fileVars, trafoVars, levelData, phase, remainingMines, console, request,
                pointVars, viewVars>>

\* Grid's constructor up to the call of makeCaptions, and the start of the
\* for loop.
BeginMakeCaptions ==
    /\ phase = "parsed" /\ walk = undefined
    /\ content' = placed(levelData.grid)
    /\ walk' = [pc |-> "for", todo |-> keys(levelData.grid), point |-> <<0, 0>>,
                linePoint |-> <<0, 0>>, count |-> 0, typeState |-> "initial"]
    /\ WalkFrame

\* The for loop takes the next entry: a Cell is captioned from its
\* neighbours, a PassiveHint starts its while loop.
ForEntity ==
    /\ walk # undefined /\ walk.pc = "for" /\ walk.todo # <<>>
    /\ LET p == Head(walk.todo)
       IN  IF isPassiveHint(content[p])
           THEN /\ walk' = [pc |-> "while", todo |-> Tail(walk.todo), point |-> p,
                            linePoint |-> p, count |-> 0, typeState |-> "initial"]
                /\ UNCHANGED content
           ELSE /\ content' = [content EXCEPT ![p].caption = cellCaption(content, p)]
                /\ walk' = [walk EXCEPT !.todo = Tail(walk.todo)]
    /\ WalkFrame

\* One pass of "while (linePoint.y < 300)".
WalkStep ==
    /\ walk # undefined /\ walk.pc = "while" /\ walk.linePoint[2] < yLimit
    /\ LET moved == plus(walk.linePoint, delta(content[walk.point]))
           state == lineStep([count |-> walk.count, typeState |-> walk.typeState],
                             get(content, moved))
       IN  walk' = [walk EXCEPT !.linePoint = moved, !.count = state.count,
                                !.typeState = state.typeState]
    /\ UNCHANGED content
    /\ WalkFrame

\* The while loop is left and the line hint is captioned.
EndWalk ==
    /\ walk # undefined /\ walk.pc = "while" /\ walk.linePoint[2] >= yLimit
    /\ content' = [content EXCEPT ![walk.point].caption = lineCaption(content[walk.point], walk)]
    /\ walk' = [walk EXCEPT !.pc = "for"]
    /\ WalkFrame

\* The for loop has no entry left: makeCaptions returns.
EndMakeCaptions ==
    /\ walk # undefined /\ walk.pc = "for" /\ walk.todo = <<>>
    /\ walk' = [walk EXCEPT !.pc = "done"]
    /\ UNCHANGED content
    /\ WalkFrame

NextWalk == BeginMakeCaptions \/ ForEntity \/ WalkStep \/ EndWalk \/ EndMakeCaptions

SpecWalk == InitWalk /\ [][NextWalk]_vars

\* The loops run in one synchronous call: a pass that can be taken is taken.
SpecWalkLive == SpecWalk /\ WF_vars(NextWalk)

\* C24: at every pass of a line hint's loop the classifier is "initial"
\* exactly when the count is 0, and "disjoint" only when the count is at
\* least 2; so a typed line hint is captioned "0" only for the count 0.
C24_InitialIffNoMine ==
    /\ [](walk # undefined =>
             /\ (walk.typeState = "initial") <=> (walk.count = 0)
             /\ walk.typeState = "disjoint" => walk.count >= 2)
    /\ [][(EndWalk /\ content[walk.point].hintType = "typed"
                   /\ content'[walk.point].caption = "0") => walk.count = 0]_vars

\* The loop of a typed hint has passed a mine, a non-mine cell and a mine.
C24_Witness ==
    /\ walk # undefined /\ walk.pc = "while"
    /\ content[walk.point].hintType = "typed"
    /\ walk.typeState = "disjoint" /\ walk.count = 2
    /\ walk.linePoint[2] < yLimit

\* makeCaptions has returned.
CaptionsMade == walk # undefined /\ walk.pc = "done"

\* C25: makeCaptions terminates: every pass of a line hint's loop raises
\* linePoint.y, for each of the three directions, the loop is left once y has
\* reached the bound, and makeCaptions returns with a caption assigned to
\* every entity.
C25_MakeCaptionsTerminates ==
    /\ [][WalkStep => walk'.linePoint[2] > walk.linePoint[2]]_vars
    /\ [](walk # undefined => walk.linePoint[2] <= yLimit + 1)
    /\ <>CaptionsMade
    /\ [](CaptionsMade =>
             /\ content = Grid(levelData)
             /\ \A c \in DOMAIN content : content[c].caption \notin {"undefined", "X"})

\* makeCaptions has returned for a level with a left hint whose loop went
\* past a mine on its line.
C25_Witness ==
    /\ CaptionsMade
    /\ \E p \in HintsOf(content) :
          /\ content[p].direction = "left" /\ content[p].hintType = "simple"
          /\ content[p].caption = "2"
    /\ walk.linePoint[2] >= yLimit

----------------------------------------------------------------------------
(* The mine counter and the reveal requests of a session.                  *)

\* C26: from loading a level on, whatever clicks and right-clicks the
\* containers receive, the counter of remaining mines is the grid's
\* hiddenMineCount and is not negative.
C26_CounterIsHiddenMineCount ==
    /\ remainingMines = hiddenMineCount(content)
    /\ remainingMines >= 0

\* The only hidden mine was revealed by a right-click, and a further
\* right-click on it has switched its hint off.
C26_Witness ==
    /\ Loaded
    /\ request.op = "tryRevealMine"
    /\ content[request.at].revealed /\ content[request.at].mine
    /\ ~content[request.at].hintEnabled
    /\ remainingMines = 0

\* C27: the handlers of a cell issue no reveal request for a revealed cell:
\* a click or right-click on a revealed cell calls neither tryRevealEmpty nor
\* tryRevealMine, and "already revealed" is never logged.
C27_NoRequestForRevealedCell ==
    /\ request # NoRequest => ~request.wasRevealed
    /\ console # <<alreadyRevealed>>

----------------------------------------------------------------------------
(* Drags that end where they began, and the wheel.                         *)

\* The button is down and no dragPoint has ever been set: shift is still
\* unassigned.
NotDraggedYet == layers.dragAnchor # undefined /\ layers.shift = undefined

\* C28: a drag that begins (mousedown sets the anchor) and ends with no
\* dragPoint in between leaves the user transformation as it was and throws
\* nothing; stated for the gestures before the first dragPoint.
C28_EmptyDragChangesNothing ==
    [][\A position \in Positions :
          (NotDraggedYet /\ MouseMove(position, FALSE)) =>
              /\ layers'.userZoom = layers.userZoom
              /\ console' = <<>>]_vars

\* C29: zoomAt completes without an error for every direction and cursor
\* position: direction 0 leaves zoom_level and the user transformation as
\* they are, a negative direction raises zoom_level by 1, a positive one
\* lowers it by 1.
C29_ZoomAtNeverFails ==
    [][\A direction \in {-1, 0, 1}, position \in Anchors :
          Wheel(direction, position) =>
              /\ console' = <<>>
              /\ layers'.zoom_level =
                    layers.zoom_level
                        + (IF direction < 0 THEN 1 ELSE IF direction > 0 THEN -1 ELSE 0)
              /\ direction = 0 => layers'.userZoom = layers.userZoom]_vars

----------------------------------------------------------------------------
(* The caption of a mine without a simple hint.                            *)

\* C30: the caption "Error!" is never displayed: for every level the grammar
\* accepts and whatever has been revealed, no cell with the caption "Error!"
\* has captionVisible true, and the text of none is visible.
C30_ErrorCaptionNeverVisible ==
    \A c \in CellsOf(content) :
        content[c].caption = "Error!" =>
            ~captionVisible(content[c]) /\ ~content[c].textVisible

====
